---- MODULE Spec2Model ----
(***************************************************************************)
(* Course catalog web application (src/app.py): a Flask application whose  *)
(* only persistent state is the file course_catalog.json, a JSON array of  *)
(* course objects.  The model covers the store (load_courses,              *)
(* save_courses), the JSON text the store writes and reads, and the four   *)
(* routes.  Tracing spans and logging do not influence any response or the *)
(* file and are left out; the templates are not part of the source, so a   *)
(* rendered page is modelled by the template name and the values handed to *)
(* render_template.                                                        *)
(*                                                                         *)
(* Spec      requests are served one at a time (one action = one handler). *)
(* ConcSpec  two requests are served by two threads; a thread's steps are  *)
(*           the points where it touches the file.                         *)
(***************************************************************************)
EXTENDS Integers, Sequences, FiniteSets, TLC

VARIABLES
    file,      \* course_catalog.json: [exists, toks, tail]
    file0,     \* history: the file when the server started
    before,    \* history: the file when the last request started
    hist,      \* history: the forms of the successful POST /add_course, in order
    resp,      \* Spec: the last request together with its response
    pc,        \* ConcSpec: per thread, "idle" | "loaded" | "opened" | "done"
    cresp,     \* ConcSpec: per thread, its request together with its response
    loaded,    \* ConcSpec: per thread, the local list `courses` of save_courses
    seen,      \* ConcSpec: per thread, the file content its load_courses read
    midwrite,  \* ConcSpec history: per thread, was another thread between
               \*   open(COURSE_FILE, 'w') and the end of its with-block at that load
    order      \* ConcSpec history: the threads in the order they closed the file

vars == <<file, file0, before, hist, resp, pc, cresp, loaded, seen, midwrite, order>>

----------------------------------------------------------------------------
(* Bounds of the model *)

\* Sequential runs: most records the file ever holds.
MaxCourses == 2

\* Concurrent runs: most records in the file when the two threads start.
MaxBase == 1

----------------------------------------------------------------------------
(* Data *)

\* sample_input: the nine form fields.
sample_input ==
    [ code          |-> "CS 203",
      name          |-> "Software and Tools for AI",
      instructor    |-> "Prof. Mayank Singh",
      semester      |-> "Fall 2025",
      schedule      |-> "Mon, Wed, Fri 10:00-11:00 AM",
      classroom     |-> "AB 7/109",
      prerequisites |-> "Basic Python, Linux",
      grading       |-> "50% Assignment, 50% Quiz",
      description   |-> "" ]

Fields == DOMAIN sample_input

\* The fields the condition of add_course tests, in the order the `or` chain
\* evaluates them.
RequiredOrder ==
    << "code", "name", "instructor", "semester", "schedule", "classroom",
       "prerequisites", "grading" >>

\* The keys of the dict literal `data`, in the order the subscripts are evaluated
\* ('description' is written twice; the second is the last one evaluated).
DataReadOrder ==
    << "code", "name", "description", "instructor", "semester", "classroom",
       "schedule", "prerequisites", "grading", "description" >>

\* The keys of `data` in insertion order, which is the order json.dump writes them.
KeyOrder ==
    << "code", "name", "description", "instructor", "semester", "classroom",
       "schedule", "prerequisites", "grading" >>

\* The empty mapping: the form of a GET request, "no course".
NoForm == [k \in {} |-> ""]

Restrict(f, S) == [k \in S |-> f[k]]

\* The request bodies the model submits: sample_input with three of its fields
\* varied (two codes that differ in case only, an empty string, a description with
\* surrounding blanks) and any of those three keys left out of the request; and
\* sample_input with its name empty, or with its grading (the field tested last)
\* empty or left out.
Forms ==
    { Restrict([sample_input EXCEPT !.code = c, !.instructor = i, !.description = d],
               Fields \ miss) :
        c \in {"CS 203", "cs 203", ""},
        i \in {"Prof. Mayank Singh", ""},
        d \in {"", " Intro "},
        miss \in SUBSET {"code", "instructor", "description"} }
    \cup { [sample_input EXCEPT !.name = ""],
           [sample_input EXCEPT !.grading = ""],
           Restrict(sample_input, Fields \ {"grading"}) }

\* The codes looked up through /course/<code>.
Codes == {"CS 203", "cs 203", "CS 999"}

----------------------------------------------------------------------------
(* JSON text.  The file content is the sequence of tokens of the text; a   *)
(* token is <<kind, text, ws>>, ws being the number of layout characters   *)
(* (newline and indentation) json.dump writes after it.                    *)

\* indent=4 of json.dump
Indent == 4

Tok(kind, text, ws) == <<kind, text, ws>>
Kind(t) == t[1]
Text(t) == t[2]

\* Number of characters of a token in the file.
TokBytes(t) == (IF Kind(t) = "string" THEN Len(Text(t)) + 2 ELSE 1) + t[3]

\* Characters of the tokens lo..hi (halving keeps the evaluation shallow).
RECURSIVE SumBytes(_, _, _)
SumBytes(toks, lo, hi) ==
    IF lo > hi THEN 0
    ELSE IF lo = hi THEN TokBytes(toks[lo])
    ELSE LET mid == (lo + hi) \div 2 IN
         SumBytes(toks, lo, mid) + SumBytes(toks, mid + 1, hi)

\* Size of a text in characters.
ByteLen(toks) == SumBytes(toks, 1, Len(toks))

\* The keys of KeyOrder a mapping has.
KeysOf(rec) == SelectSeq(KeyOrder, LAMBDA k : k \in DOMAIN rec)

\* json.dump of the members of one dict, from the i-th key on (two indent levels).
RECURSIVE DumpMembers(_, _, _)
DumpMembers(rec, keys, i) ==
    IF i > Len(keys) THEN << >>
    ELSE LET last == (i = Len(keys)) IN
         << Tok("string", keys[i], 0),
            Tok(":", "", 1),
            Tok("string", rec[keys[i]], IF last THEN 1 + Indent ELSE 0) >>
         \o (IF last THEN << >>
             ELSE << Tok(",", "", 1 + 2 * Indent) >> \o DumpMembers(rec, keys, i + 1))

\* json.dump of one course; `lastItem` tells whether the closing bracket follows.
DumpObject(rec, lastItem) ==
    IF KeysOf(rec) = << >>
    THEN << Tok("{", "", 0), Tok("}", "", IF lastItem THEN 1 ELSE 0) >>
    ELSE << Tok("{", "", 1 + 2 * Indent) >>
         \o DumpMembers(rec, KeysOf(rec), 1)
         \o << Tok("}", "", IF lastItem THEN 1 ELSE 0) >>

RECURSIVE DumpItems(_, _)
DumpItems(courses, i) ==
    IF i > Len(courses) THEN << >>
    ELSE DumpObject(courses[i], i = Len(courses))
         \o (IF i = Len(courses) THEN << >>
             ELSE << Tok(",", "", 1 + Indent) >> \o DumpItems(courses, i + 1))

\* JsonDump changed to write the last course of the list only.
JsonDump_lastOnly(courses) ==
    IF courses = << >>
    THEN << Tok("[", "", 0), Tok("]", "", 0) >>
    ELSE << Tok("[", "", 1 + Indent) >>
         \o DumpObject(courses[Len(courses)], TRUE)
         \o << Tok("]", "", 0) >>

\* json.dump(courses, file, indent=4): the text written for a list of courses.
JsonDump(courses) ==
    IF courses = << >>
    THEN << Tok("[", "", 0), Tok("]", "", 0) >>
    ELSE << Tok("[", "", 1 + Indent) >> \o DumpItems(courses, 1) \o << Tok("]", "", 0) >>

ParseFail == [ok |-> FALSE, val |-> << >>, next |-> 0]

\* The members of an object from token i on; acc holds the members read so far
\* (a repeated key keeps its last value).
RECURSIVE ParseMembers(_, _, _)
ParseMembers(toks, i, acc) ==
    IF i + 3 > Len(toks) THEN ParseFail
    ELSE IF \/ Kind(toks[i]) # "string"
            \/ Kind(toks[i + 1]) # ":"
            \/ Kind(toks[i + 2]) # "string"
         THEN ParseFail
    ELSE LET key  == Text(toks[i])
             acc2 == (key :> Text(toks[i + 2])) @@ acc
         IN  IF Kind(toks[i + 3]) = ","
             THEN ParseMembers(toks, i + 4, acc2)
             ELSE IF Kind(toks[i + 3]) = "}"
                  THEN [ok |-> TRUE, val |-> acc2, next |-> i + 4]
                  ELSE ParseFail

\* One object starting at token i.
ParseObject(toks, i) ==
    IF i + 1 > Len(toks) \/ Kind(toks[i]) # "{" THEN ParseFail
    ELSE IF Kind(toks[i + 1]) = "}"
         THEN [ok |-> TRUE, val |-> NoForm, next |-> i + 2]
         ELSE ParseMembers(toks, i + 1, NoForm)

\* The items of the array from token i on.
RECURSIVE ParseItems(_, _, _)
ParseItems(toks, i, acc) ==
    LET obj == ParseObject(toks, i) IN
    IF ~obj.ok \/ obj.next > Len(toks) THEN ParseFail
    ELSE IF Kind(toks[obj.next]) = ","
         THEN ParseItems(toks, obj.next + 1, Append(acc, obj.val))
         ELSE IF Kind(toks[obj.next]) = "]" /\ obj.next = Len(toks)
              THEN [ok |-> TRUE, val |-> Append(acc, obj.val), next |-> obj.next + 1]
              ELSE ParseFail

\* JsonLoad changed to take a text of length 0 for the empty array.
JsonLoad_lenient(toks) ==
    IF toks = << >> THEN [ok |-> TRUE, val |-> << >>, next |-> 1]
    ELSE IF Len(toks) < 2 \/ Kind(toks[1]) # "[" THEN ParseFail
    ELSE IF Kind(toks[2]) = "]"
         THEN IF Len(toks) = 2 THEN [ok |-> TRUE, val |-> << >>, next |-> 3]
                               ELSE ParseFail
         ELSE ParseItems(toks, 2, << >>)

\* json.load of a text: the decoded array of objects, or a failure
\* (json.JSONDecodeError).  The text is one the program wrote, or a part of one.
JsonLoad(toks) ==
    IF Len(toks) < 2 \/ Kind(toks[1]) # "[" THEN ParseFail
    ELSE IF Kind(toks[2]) = "]"
         THEN IF Len(toks) = 2 THEN [ok |-> TRUE, val |-> << >>, next |-> 3]
                               ELSE ParseFail
         ELSE ParseItems(toks, 2, << >>)

----------------------------------------------------------------------------
(* The file.  tail counts the characters of an older, longer text that     *)
(* follow the text written last (a write at offset 0 does not shorten the  *)
(* file).                                                                  *)

NoFile == [exists |-> FALSE, toks |-> << >>, tail |-> 0]

FileOf(toks) == [exists |-> TRUE, toks |-> toks, tail |-> 0]

\* An existing file of length 0.
EmptyFile == FileOf(<< >>)

\* A file whose text stops after the opening bracket.
CutFile == FileOf(<< Tok("[", "", 0) >>)

FileSize(f) == ByteLen(f.toks) + f.tail

\* open(COURSE_FILE, 'w'): creates the file or truncates it to length 0.
OpenForWriting(f) == EmptyFile

\* Leaving the with-block: the buffered text is written at offset 0 of the file
\* as it is then, whatever its length has become in the meantime.
WriteAndClose(f, toks) ==
    [ exists |-> TRUE,
      toks   |-> toks,
      tail   |-> IF FileSize(f) > ByteLen(toks) THEN FileSize(f) - ByteLen(toks) ELSE 0 ]

\* load_courses without the os.path.exists test: opening a missing file raises.
load_courses_noExistsCheck(f) ==
    IF ~f.exists \/ f.tail > 0 THEN [ok |-> FALSE, courses |-> << >>]
    ELSE LET r == JsonLoad(f.toks) IN [ok |-> r.ok, courses |-> r.val]

\* load_courses changed to catch the decoding error and return an empty list.
load_courses_swallow(f) ==
    IF ~f.exists \/ f.tail > 0 THEN [ok |-> TRUE, courses |-> << >>]
    ELSE LET r == JsonLoad(f.toks) IN
         [ok |-> TRUE, courses |-> IF r.ok THEN r.val ELSE << >>]

\* load_courses(): [ok, courses]; ok = FALSE is json.load raising.
load_courses(f) ==
    IF ~f.exists THEN [ok |-> TRUE, courses |-> << >>]
    ELSE IF f.tail > 0 THEN [ok |-> FALSE, courses |-> << >>]
    ELSE LET r == JsonLoad(f.toks) IN [ok |-> r.ok, courses |-> r.val]

----------------------------------------------------------------------------
(* Requests and responses *)

NoFlash == [category |-> "", message |-> "", arg |-> ""]

\* A request and what the client gets back.  status: the HTTP status; template,
\* courses, course: the call of render_template; flash: the message queued by
\* flash(); location: the target of redirect(); exc: the exception that ended
\* the handler, "" when it returned.
Response(route, method, code, form, status, template, courses, course, fl, location, exc) ==
    [ route |-> route, method |-> method, code |-> code, form |-> form,
      status |-> status, template |-> template, courses |-> courses,
      course |-> course, flash |-> fl, location |-> location, exc |-> exc ]

NoResponse ==
    Response("", "", "", NoForm, 0, "", << >>, NoForm, NoFlash, "", "")

Rendered(route, method, code, form, template, courses, course) ==
    Response(route, method, code, form, 200, template, courses, course, NoFlash, "", "")

Redirected(route, method, code, form, fl, location) ==
    Response(route, method, code, form, 302, "", << >>, NoForm, fl, location, "")

\* An exception nobody catches: Flask answers 500; a BadRequestKeyError (a key
\* that request.form does not have) is an HTTP exception and answers 400.
Raised(route, method, code, form, exc) ==
    Response(route, method, code, form,
             IF exc = "BadRequestKeyError" THEN 400 ELSE 500,
             "", << >>, NoForm, NoFlash, "", exc)

----------------------------------------------------------------------------
(* The routes *)

\* index(): GET /
index == Rendered("/", "GET", "", NoForm, "index.html", << >>, NoForm)

\* course_catalog(): GET /catalog.  load_courses() is called outside the try.
course_catalog(f) ==
    LET ld == load_courses(f) IN
    IF ~ld.ok
    THEN Raised("/catalog", "GET", "", NoForm, "JSONDecodeError")
    ELSE Rendered("/catalog", "GET", "", NoForm, "course_catalog.html", ld.courses, NoForm)

\* FirstMatch changed to return the last course with the code instead of the first.
FirstMatch_last(courses, code, i) ==
    LET I == { j \in DOMAIN courses : courses[j]["code"] = code } IN
    IF I = {} THEN [exc |-> "", found |-> FALSE, course |-> NoForm]
    ELSE [exc |-> "", found |-> TRUE,
          course |-> courses[CHOOSE j \in I : \A k \in I : k <= j]]

\* next((course for course in courses if course['code'] == code), None), from
\* the i-th course on: [found, course], or a KeyError for a course without 'code'.
RECURSIVE FirstMatch(_, _, _)
FirstMatch(courses, code, i) ==
    IF i > Len(courses) THEN [exc |-> "", found |-> FALSE, course |-> NoForm]
    ELSE IF "code" \notin DOMAIN courses[i]
         THEN [exc |-> "KeyError", found |-> FALSE, course |-> NoForm]
    ELSE IF courses[i]["code"] = code
         THEN [exc |-> "", found |-> TRUE, course |-> courses[i]]
         ELSE FirstMatch(courses, code, i + 1)

\* course_details(code): GET /course/<code>
course_details(f, code) ==
    LET ld == load_courses(f)
        m  == FirstMatch(ld.courses, code, 1)
    IN  IF ~ld.ok THEN Raised("/course", "GET", code, NoForm, "JSONDecodeError")
        ELSE IF m.exc # "" THEN Raised("/course", "GET", code, NoForm, m.exc)
        ELSE IF ~m.found \/ m.course = NoForm      \* `if not course`
             THEN Redirected("/course", "GET", code, NoForm,
                             [category |-> "error",
                              message  |-> "No course found with code",
                              arg      |-> code],
                             "/catalog")
             ELSE Rendered("/course", "GET", code, NoForm,
                           "course_details.html", << >>, m.course)

\* The condition of add_course, from the i-th required field on: "empty" when a
\* field is the empty string, "keyerror" when request.form[...] raises before
\* that, "ok" when every comparison is false.
RECURSIVE CheckRequired(_, _)
CheckRequired(form, i) ==
    IF i > Len(RequiredOrder) THEN "ok"
    ELSE IF RequiredOrder[i] \notin DOMAIN form THEN "keyerror"
    ELSE IF form[RequiredOrder[i]] = "" THEN "empty"
    ELSE CheckRequired(form, i + 1)

\* Does building the dict `data` raise (a key request.form does not have)?
DataRaises(form) == \E i \in DOMAIN DataReadOrder : DataReadOrder[i] \notin DOMAIN form

\* The dict `data` of add_course.
MakeData(form) == [k \in {KeyOrder[i] : i \in DOMAIN KeyOrder} |-> form[k]]

\* save_courses changed to dump the new course alone instead of the loaded list
\* with the course appended.
save_courses_overwrite(f, data) ==
    LET ld == load_courses(f) IN
    IF ~ld.ok THEN [ok |-> FALSE, file |-> f]
    ELSE [ok |-> TRUE, file |-> WriteAndClose(OpenForWriting(f), JsonDump(<< data >>))]

\* save_courses(data), run without interruption: [ok, file].
save_courses(f, data) ==
    LET ld == load_courses(f) IN
    IF ~ld.ok THEN [ok |-> FALSE, file |-> f]
    ELSE [ ok   |-> TRUE,
           file |-> WriteAndClose(OpenForWriting(f), JsonDump(Append(ld.courses, data))) ]

AddedResponse(form) ==
    Redirected("/add_course", "POST", "", form,
               [category |-> "success",
                message  |-> "Course added successfully",
                arg      |-> form["code"]],
               "/catalog")

\* The part of add_course (POST) before save_courses: the response when the
\* handler ends there, NoResponse when it goes on to save_courses.
add_course_check(form) ==
    LET chk == CheckRequired(form, 1) IN
    IF chk = "keyerror" THEN Raised("/add_course", "POST", "", form, "BadRequestKeyError")
    ELSE IF chk = "empty"
         THEN Redirected("/add_course", "POST", "", form,
                         [category |-> "error",
                          message  |-> "Please fill all the fields.",
                          arg      |-> ""],
                         "/add_course")
    ELSE IF DataRaises(form)
         THEN Raised("/add_course", "POST", "", form, "BadRequestKeyError")
         ELSE NoResponse

\* add_course(), POST, run without interruption: [file, resp].
add_course_post(f, form) ==
    LET early == add_course_check(form) IN
    IF early # NoResponse THEN [file |-> f, resp |-> early]
    ELSE LET sv == save_courses(f, MakeData(form)) IN
         IF ~sv.ok
         THEN [file |-> f, resp |-> Raised("/add_course", "POST", "", form, "JSONDecodeError")]
         ELSE [file |-> sv.file, resp |-> AddedResponse(form)]

\* add_course(), GET: the form page.
add_course_get == Rendered("/add_course", "GET", "", NoForm, "add_courses.html", << >>, NoForm)

----------------------------------------------------------------------------
(* Spec: requests served one at a time *)

Procs == {1, 2}

IdleThreads ==
    /\ pc = [p \in Procs |-> "idle"]
    /\ cresp = [p \in Procs |-> NoResponse]
    /\ loaded = [p \in Procs |-> << >>]
    /\ seen = [p \in Procs |-> NoFile]
    /\ midwrite = [p \in Procs |-> FALSE]
    /\ order = << >>

\* The server starts with no file, with a file holding the empty array, or with
\* a file that is not JSON: one of length 0 (what a server stopped inside
\* save_courses leaves behind) or one cut short.
Init ==
    /\ file \in {NoFile, FileOf(JsonDump(<< >>)), EmptyFile, CutFile}
    /\ file0 = file
    /\ before = file
    /\ hist = << >>
    /\ resp = NoResponse
    /\ IdleThreads

threadVars == <<pc, cresp, loaded, seen, midwrite, order>>

\* Number of courses in the file (0 when it cannot be read).
CourseCount(f) == Len(load_courses(f).courses)

Index ==
    /\ resp' = index
    /\ before' = file
    /\ UNCHANGED <<file, file0, hist, threadVars>>

CourseCatalog ==
    /\ resp' = course_catalog(file)
    /\ before' = file
    /\ UNCHANGED <<file, file0, hist, threadVars>>

CourseDetails ==
    \E code \in Codes :
        /\ resp' = course_details(file, code)
        /\ before' = file
        /\ UNCHANGED <<file, file0, hist, threadVars>>

AddCourseGet ==
    /\ resp' = add_course_get
    /\ before' = file
    /\ UNCHANGED <<file, file0, hist, threadVars>>

AddCoursePost ==
    \E form \in Forms :
        LET r == add_course_post(file, form) IN
        /\ r.file # file => CourseCount(file) < MaxCourses
        /\ file' = r.file
        /\ resp' = r.resp
        /\ before' = file
        /\ hist' = IF r.resp.flash.category = "success" THEN Append(hist, form) ELSE hist
        /\ UNCHANGED <<file0, threadVars>>

Next == Index \/ CourseCatalog \/ CourseDetails \/ AddCourseGet \/ AddCoursePost

Spec == Init /\ [][Next]_vars

----------------------------------------------------------------------------
(* ConcSpec: two requests served by two threads.  A thread's first step    *)
(* runs its handler up to and including load_courses (everything before is *)
(* local to the request); save_courses then opens the file for writing     *)
(* (which truncates it) and, leaving the with-block, writes the text.  The *)
(* files of the model are shorter than the writer's buffer, so the text    *)
(* reaches the file in one write when the file is closed.                  *)

\* The request bodies of the concurrent runs: two that pass the checks, one with
\* an empty required field, one without the description key.
ConcForms ==
    { sample_input,
      [sample_input EXCEPT !.description = " Intro "],
      [sample_input EXCEPT !.instructor = ""],
      Restrict(sample_input, Fields \ {"description"}) }

ConcCodes == {"CS 203", "CS 999"}

\* The courses the concurrent runs can add.
ConcRecords == { MakeData(f) : f \in {g \in ConcForms : add_course_check(g) = NoResponse} }

RECURSIVE SeqsUpTo(_, _)
SeqsUpTo(S, n) ==
    IF n = 0 THEN { << >> }
    ELSE LET shorter == SeqsUpTo(S, n - 1) IN
         shorter \cup { Append(q, x) : q \in {t \in shorter : Len(t) = n - 1}, x \in S }

\* The server has run before: there is no file, or the file holds what earlier
\* adds wrote.
ConcInit ==
    /\ file \in {NoFile} \cup { FileOf(JsonDump(S)) : S \in SeqsUpTo(ConcRecords, MaxBase) }
    /\ file0 = file
    /\ before = file
    /\ hist = << >>
    /\ resp = NoResponse
    /\ IdleThreads

OtherWriting(p) == \E q \in Procs \ {p} : pc[q] = "opened"

Finish(p, r) ==
    /\ cresp' = [cresp EXCEPT ![p] = r]
    /\ pc' = [pc EXCEPT ![p] = "done"]

Loads(p) ==
    /\ seen' = [seen EXCEPT ![p] = file]
    /\ midwrite' = [midwrite EXCEPT ![p] = OtherWriting(p)]

\* GET /catalog by thread p.
CCatalog(p) ==
    /\ pc[p] = "idle"
    /\ Finish(p, course_catalog(file))
    /\ Loads(p)
    /\ UNCHANGED <<file, file0, before, hist, resp, loaded, order>>

\* GET /course/<code> by thread p.
CDetails(p) ==
    /\ pc[p] = "idle"
    /\ \E code \in ConcCodes : Finish(p, course_details(file, code))
    /\ Loads(p)
    /\ UNCHANGED <<file, file0, before, hist, resp, loaded, order>>

\* POST /add_course by thread p, up to `courses.append(data)` in save_courses.
CAddBegin(p) ==
    /\ pc[p] = "idle"
    /\ \E form \in ConcForms :
        LET early == add_course_check(form)
            ld    == load_courses(file)
        IN  IF early # NoResponse
            THEN /\ Finish(p, early)
                 /\ UNCHANGED <<loaded, seen, midwrite>>
            ELSE IF ~ld.ok
            THEN /\ Finish(p, Raised("/add_course", "POST", "", form, "JSONDecodeError"))
                 /\ Loads(p)
                 /\ UNCHANGED loaded
            ELSE /\ cresp' = [cresp EXCEPT ![p] =
                                 [NoResponse EXCEPT !.route = "/add_course",
                                                    !.method = "POST", !.form = form]]
                 /\ pc' = [pc EXCEPT ![p] = "loaded"]
                 /\ loaded' = [loaded EXCEPT ![p] = Append(ld.courses, MakeData(form))]
                 /\ Loads(p)
    /\ UNCHANGED <<file, file0, before, hist, resp, order>>

\* open(COURSE_FILE, 'w') in save_courses by thread p.
COpen(p) ==
    /\ pc[p] = "loaded"
    /\ file' = OpenForWriting(file)
    /\ pc' = [pc EXCEPT ![p] = "opened"]
    /\ UNCHANGED <<file0, before, hist, resp, cresp, loaded, seen, midwrite, order>>

\* json.dump and the end of the with-block in save_courses, then the rest of
\* add_course, by thread p.
CClose(p) ==
    /\ pc[p] = "opened"
    /\ file' = WriteAndClose(file, JsonDump(loaded[p]))
    /\ Finish(p, AddedResponse(cresp[p].form))
    /\ hist' = Append(hist, cresp[p].form)
    /\ order' = Append(order, p)
    /\ UNCHANGED <<file0, before, resp, loaded, seen, midwrite>>

ConcNext ==
    \E p \in Procs : CCatalog(p) \/ CDetails(p) \/ CAddBegin(p) \/ COpen(p) \/ CClose(p)

ConcSpec == ConcInit /\ [][ConcNext]_vars

----------------------------------------------------------------------------
(* Vocabulary of the properties *)

\* The eight required fields.
RequiredFields ==
    { "code", "name", "instructor", "semester", "schedule", "classroom",
      "prerequisites", "grading" }

\* The text of the empty array.
EmptyArrayText == << <<"[", "", 0>>, <<"]", "", 0>> >>

\* The files that exist and do not hold JSON.
CorruptFiles == {EmptyFile, CutFile}

\* The persisted sequence of a file: what a load returns.
Persisted(f) == load_courses(f).courses

\* The file holds a persisted sequence (no file: the empty one).
Readable(f) == load_courses(f).ok

IsAddPost(r) == r.route = "/add_course" /\ r.method = "POST"

AllRequiredNonEmpty(form) == \A k \in RequiredFields : k \in DOMAIN form /\ form[k] # ""

\* ValidationError: an error notice and a redirect back to the form.
IsValidationError(r) ==
    /\ r.status = 302 /\ r.location = "/add_course"
    /\ r.flash.category = "error" /\ r.exc = ""

\* Success of an add: a success notice and a redirect to the catalog.
IsAdded(r) ==
    /\ r.status = 302 /\ r.location = "/catalog"
    /\ r.flash.category = "success" /\ r.exc = ""

\* NotFound: an error notice and a redirect to the catalog.
IsNotFound(r) ==
    /\ r.status = 302 /\ r.location = "/catalog"
    /\ r.flash.category = "error" /\ r.exc = ""

\* CorruptStateError: the load raised and the request failed, with no page, no
\* notice and no course data in the answer.
IsCorruptStateError(r) ==
    /\ r.status = 500 /\ r.exc = "JSONDecodeError"
    /\ r.template = "" /\ r.courses = << >> /\ r.course = NoForm
    /\ r.flash = NoFlash /\ r.location = ""

\* course holds exactly the submitted strings of form.
SameValues(course, form) ==
    /\ DOMAIN course = Fields
    /\ \A k \in DOMAIN form : course[k] = form[k]

\* T is S followed by one more course.
IsAppend(S, T) == Len(T) = Len(S) + 1 /\ SubSeq(T, 1, Len(S)) = S

\* S is a prefix of T.
IsPrefix(S, T) == Len(S) <= Len(T) /\ SubSeq(T, 1, Len(S)) = S

\* The positions of the courses of S with code c.
Matches(S, c) == { i \in DOMAIN S : S[i]["code"] = c }

Min(I) == CHOOSE i \in I : \A j \in I : i <= j

----------------------------------------------------------------------------
(* Properties of Spec (requests served one at a time) *)

\* C1: for every persisted sequence S and every field set whose eight required
\* fields are non-empty, a POST /add_course succeeds, and the persisted sequence
\* (what the next listing loads) is S followed by exactly one new record holding
\* exactly the submitted strings.
C1_AddAppendsSubmitted ==
    (IsAddPost(resp) /\ AllRequiredNonEmpty(resp.form) /\ Readable(before)) =>
        /\ IsAdded(resp)
        /\ Readable(file)
        /\ IsAppend(Persisted(before), Persisted(file))
        /\ SameValues(Persisted(file)[Len(Persisted(file))], resp.form)

\* What holds of C1's statement: the same, for the field sets that also submit
\* the description key (empty or not).
C1_ForSubmittedDescription ==
    (/\ IsAddPost(resp) /\ AllRequiredNonEmpty(resp.form)
     /\ "description" \in DOMAIN resp.form /\ Readable(before)) =>
        /\ IsAdded(resp)
        /\ Readable(file)
        /\ IsAppend(Persisted(before), Persisted(file))
        /\ SameValues(Persisted(file)[Len(Persisted(file))], resp.form)

\* C2: a POST /add_course in which at least one required field is the empty
\* string yields ValidationError and leaves the file as it was (absent stays
\* absent).
C2_EmptyRequiredIsValidationError ==
    (IsAddPost(resp) /\ \E k \in RequiredFields : k \in DOMAIN resp.form /\ resp.form[k] = "") =>
        IsValidationError(resp) /\ file = before

\* What holds of C2's statement: the same, when no required key tested before the
\* first empty field is missing from the request; and the file is never touched.
C2_ForSubmittedKeys ==
    (IsAddPost(resp) /\ \E k \in RequiredFields : k \in DOMAIN resp.form /\ resp.form[k] = "") =>
        /\ file = before
        /\ RequiredFields \subseteq DOMAIN resp.form => IsValidationError(resp)

\* C3: GET /course/<c> answers with the record of lowest index whose code equals c
\* exactly, NotFound when there is none, and leaves the file as it was.
C3_GetCourseFirstMatch ==
    (resp.route = "/course" /\ Readable(before)) =>
        LET S == Persisted(before)
            I == Matches(S, resp.code)
        IN  /\ file = before
            /\ IF I = {}
               THEN IsNotFound(resp) /\ resp.course = NoForm /\ resp.template = ""
               ELSE /\ resp.status = 200 /\ resp.exc = "" /\ resp.flash = NoFlash
                    /\ resp.template = "course_details.html"
                    /\ resp.course = S[Min(I)]

\* C3, reached: two different records share the looked-up code and the first is
\* the one returned.
C3_Witness ==
    /\ resp.route = "/course" /\ resp.status = 200 /\ Readable(before)
    /\ LET S == Persisted(before)
           I == Matches(S, resp.code)
       IN  /\ \E i, j \in I : i < j /\ S[i] # S[j]
           /\ resp.course = S[Min(I)]

\* C4: GET /catalog on a store whose file is absent or holds the empty array
\* answers normally with the empty sequence and neither creates nor changes the
\* file.
C4_ListOnEmptyStore ==
    (/\ resp.route = "/catalog"
     /\ \/ ~before.exists
        \/ before.exists /\ before.toks = EmptyArrayText /\ before.tail = 0) =>
        /\ resp.status = 200 /\ resp.exc = ""
        /\ resp.template = "course_catalog.html"
        /\ resp.courses = << >>
        /\ file = before

\* C4, reached: the catalog was listed while there was no file.
C4_Witness ==
    /\ resp.route = "/catalog" /\ ~before.exists
    /\ resp.status = 200 /\ resp.courses = << >> /\ ~file.exists

\* C5: a POST /add_course in which a required key is not submitted at all yields
\* ValidationError, no other failure, and the file is unchanged.
C5_AbsentRequiredIsValidationError ==
    (IsAddPost(resp) /\ \E k \in RequiredFields : k \notin DOMAIN resp.form) =>
        IsValidationError(resp) /\ file = before

\* C6: a POST /add_course whose eight required fields are non-empty succeeds (one
\* record more is persisted, success notice, redirect to /catalog) whether the
\* description is non-empty, empty or not submitted.
C6_DescriptionOptional ==
    \A d \in {"non-empty", "empty", "absent"} :
        (/\ IsAddPost(resp) /\ AllRequiredNonEmpty(resp.form) /\ Readable(before)
         /\ d = IF "description" \notin DOMAIN resp.form THEN "absent"
                ELSE IF resp.form["description"] = "" THEN "empty" ELSE "non-empty") =>
            IsAdded(resp) /\ Len(Persisted(file)) = Len(Persisted(before)) + 1

\* C8: starting from an absent file, the persisted sequence always equals the
\* records of the successful adds so far, in the order made and with the
\* submitted values, and no request removes, edits or reorders a record that was
\* persisted before it.
C8_PersistedIsHistory ==
    file0 = NoFile =>
        /\ Readable(file)
        /\ Len(Persisted(file)) = Len(hist)
        /\ \A i \in DOMAIN hist : SameValues(Persisted(file)[i], hist[i])
        /\ IsPrefix(Persisted(before), Persisted(file))

\* C8, reached: two different records were added to an absent file and the
\* listing that follows returns both in the order added.
C8_Witness ==
    /\ file0 = NoFile /\ Len(hist) = 2 /\ hist[1] # hist[2]
    /\ resp.route = "/catalog" /\ resp.status = 200
    /\ Len(resp.courses) = 2
    /\ \A i \in 1..2 : SameValues(resp.courses[i], hist[i])

\* C9: while the file exists and does not hold JSON, the catalog, the details and
\* an add with valid fields all fail with the load's error, no answer carries
\* course data, and the file content stays as it is.
C9_CorruptFileFailsRequests ==
    before \in CorruptFiles =>
        /\ file = before
        /\ (\/ resp.route \in {"/catalog", "/course"}
            \/ /\ IsAddPost(resp) /\ AllRequiredNonEmpty(resp.form)
               /\ "description" \in DOMAIN resp.form)
           => IsCorruptStateError(resp)

\* C9, reached: an add with valid fields failed on a file that is not JSON.
C9_Witness ==
    /\ before = CutFile /\ file = CutFile
    /\ IsAddPost(resp) /\ AllRequiredNonEmpty(resp.form)
    /\ "description" \in DOMAIN resp.form
    /\ IsCorruptStateError(resp)

----------------------------------------------------------------------------
(* Properties of ConcSpec (two requests served by two threads) *)

\* Both threads ran POST /add_course and both answered with the success notice.
BothAdded == \A p \in Procs : pc[p] = "done" /\ IsAdded(cresp[p])

\* C7: two concurrent adds with valid fields can lose one addition.  Whenever both
\* have answered with success, the file is what the thread that closed it last
\* wrote: if that thread loaded before the other one wrote, the other one's record
\* is gone (the persisted sequence is the old one plus the last writer's record
\* alone, or the file is left unreadable by the rest of the longer text under it);
\* otherwise both records follow the old sequence in the order written.
C7_LastRewriteWins ==
    BothAdded =>
        LET S     == Persisted(file0)
            T     == Persisted(file)
            first == order[1]
            last  == order[2]
        IN  IF seen[last] = file0
            THEN IF file.tail > 0 THEN ~Readable(file)
                 ELSE /\ Readable(file)
                      /\ IsAppend(S, T)
                      /\ SameValues(T[Len(T)], cresp[last].form)
            ELSE /\ Readable(file)
                 /\ file.tail = 0
                 /\ Len(T) = Len(S) + 2
                 /\ IsPrefix(S, T)
                 /\ SameValues(T[Len(S) + 1], cresp[first].form)
                 /\ SameValues(T[Len(S) + 2], cresp[last].form)

\* C7, reached: both adds answered with success, the records differ, and the
\* persisted sequence holds one record more than before: the first writer's
\* record is not the one that was appended.
C7_Witness ==
    /\ BothAdded
    /\ cresp[1].form # cresp[2].form
    /\ Readable(file)
    /\ IsAppend(Persisted(file0), Persisted(file))
    /\ SameValues(Persisted(file)[Len(Persisted(file))], cresp[order[2]].form)
    /\ ~SameValues(Persisted(file)[Len(Persisted(file))], cresp[order[1]].form)

\* C10: the rewrite is not atomic towards readers.  A catalog or details request
\* fails with the load's error exactly when its load read the file at length 0,
\* which happens only between another thread's open-for-writing and its write and
\* is neither the content before the add nor the content after it; any other
\* reader got the sequence before the add or the sequence after it.
C10_ReaderSeesTruncatedFile ==
    \A p \in Procs :
        (pc[p] = "done" /\ cresp[p].route \in {"/catalog", "/course"}) =>
            /\ IsCorruptStateError(cresp[p]) <=> seen[p] = EmptyFile
            /\ cresp[p].exc = "JSONDecodeError" <=> seen[p] = EmptyFile
            /\ seen[p] = EmptyFile =>
                  /\ midwrite[p]
                  /\ seen[p] # file0
                  /\ \A q \in Procs \ {p} : pc[q] = "done" => seen[p] # file
            /\ seen[p] # EmptyFile =>
                  \/ seen[p] = file0
                  \/ \E q \in Procs \ {p} :
                        /\ IsAppend(Persisted(file0), Persisted(seen[p]))
                        /\ SameValues(Persisted(seen[p])[Len(Persisted(seen[p]))],
                                      cresp[q].form)

\* C10, reached: one add and one reader ran, the add succeeded, and the reader
\* failed on content that is neither the file before the add nor the file after.
C10_Witness ==
    \E p \in Procs : \E q \in Procs \ {p} :
        /\ pc[p] = "done" /\ cresp[p].route \in {"/catalog", "/course"}
        /\ IsCorruptStateError(cresp[p])
        /\ pc[q] = "done" /\ IsAdded(cresp[q])
        /\ Readable(file0) /\ Readable(file)
        /\ seen[p] # file0 /\ seen[p] # file

====
